---------------------------- MODULE Spec2Model ----------------------------
(***************************************************************************)
(* A model of the Freetronics 128x128 OLED driver (FTOLED.h).              *)
(*                                                                         *)
(* The driver keeps no frame buffer: its observable behaviour is the       *)
(* stream of command and data bytes it transfers to the panel, plus the    *)
(* few fields of class OLED and class OLED_TextBox.  The variable `wire'   *)
(* holds the transfers made by the most recent call; the byte stream the   *)
(* panel sees is the concatenation of the values `wire' takes.             *)
(*                                                                         *)
(* FTOLED.h holds the inline bus primitives and register setters.  The    *)
(* bodies of the drawing calls, of the bitmap decoder and of the text box  *)
(* live in translation units that are not part of the sources at hand;     *)
(* those operators are written from the design document and are marked so  *)
(* where they are defined.                                                 *)
(***************************************************************************)
EXTENDS Integers, Sequences, FiniteSets, TLC

VARIABLES
    wire,             \* transfers made by the most recent call
    call,             \* the most recent call and its arguments
    ret,              \* BMP_Status returned by the most recent displayBMP
    remap_flags,      \* OLED::remap_flags
    dev_remap,        \* panel side: data byte of the last 0xA0 command received
    fmt,              \* argument of the most recent setRemapFormat
    cur_x,            \* OLED_TextBox::cur_x
    cur_y,            \* OLED_TextBox::cur_y
    buffer,           \* OLED_TextBox::buffer, as the visible lines top to bottom
    pending_newline,  \* OLED_TextBox::pending_newline
    lines             \* lines begun in the text box since it was last emptied

vars == <<wire, call, ret, remap_flags, dev_remap, fmt,
          cur_x, cur_y, buffer, pending_newline, lines>>

---------------------------------------------------------------------------
(* C integer operators on non-negative values.                             *)

RECURSIVE BitAnd(_, _)
BitAnd(a, b) ==
    IF a = 0 \/ b = 0 THEN 0
    ELSE (a % 2) * (b % 2) + 2 * BitAnd(a \div 2, b \div 2)

RECURSIVE BitOr(_, _)
BitOr(a, b) ==
    IF a = 0 THEN b
    ELSE IF b = 0 THEN a
    ELSE (IF a % 2 = 1 \/ b % 2 = 1 THEN 1 ELSE 0) + 2 * BitOr(a \div 2, b \div 2)

\* ~x on an int, kept to the 16 bits an AVR int has
BitNot(x) == (2^16 - 1) - x

Shl(x, n) == x * 2^n

Shr(x, n) == x \div 2^n

\* conversion of an int to byte (uint8_t)
ToByte(x) == x % 256

---------------------------------------------------------------------------
(* Geometry and colour.                                                    *)

ROWS == 128

COLUMNS == 128

ROW_MASK == ROWS - 1

COLUMN_MASK == COLUMNS - 1

MAX_RED == 31

MAX_GREEN == 63

MAX_BLUE == 31

\* struct Colour { byte red : 5; byte green : 6; byte blue : 5; }
Colour == [red : 0..MAX_RED, green : 0..MAX_GREEN, blue : 0..MAX_BLUE]

BLACK == [red |-> 0, green |-> 0, blue |-> 0]

---------------------------------------------------------------------------
(* Bus primitives.  A transfer is a command byte (D/C low) or a data byte  *)
(* (D/C high); a loop that repeats the same transfers n times is kept as   *)
(* one "repeat" entry instead of being unrolled.                           *)

NoTransfer == <<>>

writeCommand(command) == <<[k |-> "cmd", b |-> ToByte(command)]>>

writeData(data) == <<[k |-> "data", b |-> ToByte(data)]>>

\* faulty variant: the two bytes of a pixel sent low byte first
writeDataColour_LowFirst(colour) ==
    writeData(BitOr(Shl(colour.green, 5), colour.blue))
        \o writeData(BitOr(Shr(colour.green, 3), Shl(colour.red, 3)))

\* faulty variant: green shifted for a 5-bit channel
writeDataColour_Green5(colour) ==
    writeData(BitOr(Shr(colour.green, 2), Shl(colour.red, 3)))
        \o writeData(BitOr(Shl(colour.green, 5), colour.blue))

\* writeData(Colour)
writeDataColour(colour) ==
    writeData(BitOr(Shr(colour.green, 3), Shl(colour.red, 3)))
        \o writeData(BitOr(Shl(colour.green, 5), colour.blue))

\* writeCommand(byte command, byte data)
writeCommandData(command, data) == writeCommand(command) \o writeData(data)

\* for (i = 0; i < n; i++) body
Repeat(body, n) ==
    IF n <= 0 THEN NoTransfer ELSE <<[k |-> "repeat", body |-> body, n |-> n]>>


---------------------------------------------------------------------------
(* Register setters of class OLED.                                         *)

REMAP_HORIZONTAL_INCREMENT == 0

REMAP_VERTICAL_INCREMENT == Shl(1, 0)

\* setRemapFormat: the bytes written
setRemapFormat(flags) == writeCommandData(160, flags)

\* faulty variant: the mask applied without its complement
IncrementRemap_MaskNotInverted(flags, direction) ==
    ToByte(BitOr(
        BitAnd(flags, BitOr(REMAP_HORIZONTAL_INCREMENT, REMAP_VERTICAL_INCREMENT)),
        BitAnd(direction, BitOr(REMAP_VERTICAL_INCREMENT, REMAP_HORIZONTAL_INCREMENT))))

\* setIncrementDirection: the value of its local `remap'
IncrementRemap(flags, direction) ==
    ToByte(BitOr(
        BitAnd(flags, BitNot(BitOr(REMAP_HORIZONTAL_INCREMENT, REMAP_VERTICAL_INCREMENT))),
        BitAnd(direction, BitOr(REMAP_VERTICAL_INCREMENT, REMAP_HORIZONTAL_INCREMENT))))

\* setIncrementDirection: the bytes written
setIncrementDirection(flags, direction) ==
    writeCommandData(160, IncrementRemap(flags, direction))

\* setResetPrechargePeriods: its parameter resetLength after the reassignment
ResetRegister(resetLength) ==
    ToByte((BitAnd(resetLength, BitNot(1)) \div 2) - 1)

\* setResetPrechargePeriods: the data byte sent with command 0xB1
ResetPrechargeData(resetLength, precharge) ==
    BitOr(Shr(ResetRegister(resetLength), 8), BitAnd(precharge, 15))

\* setResetPrechargePeriods: the bytes written
setResetPrechargePeriods(resetLength, precharge) ==
    writeCommandData(177, ResetPrechargeData(resetLength, precharge))

\* The panel's remap register after it has received the transfers `w':
\* the data byte that follows the last 0xA0 command, else the old value.
RECURSIVE PanelRemap(_, _)
PanelRemap(old, w) ==
    IF Len(w) < 2 THEN old
    ELSE IF w[Len(w) - 1] = [k |-> "cmd", b |-> 160] /\ w[Len(w)].k = "data"
         THEN w[Len(w)].b
         ELSE PanelRemap(old, SubSeq(w, 1, Len(w) - 1))

---------------------------------------------------------------------------
(* Window addressing.                                                      *)

\* faulty variant: the column range sent end first
setColumn_EndFirst(start, end) ==
    writeCommand(21) \o writeData(end) \o writeData(start)

setColumn(start, end) ==
    writeCommand(21) \o writeData(start) \o writeData(end)

\* faulty variant: the row range sent under the column-range opcode
setRow_ColumnOpcode(start, end) ==
    writeCommand(21) \o writeData(start) \o writeData(end)

setRow(start, end) ==
    writeCommand(117) \o writeData(start) \o writeData(end)

\* faulty variant: the write-RAM command left out
setWriteRam_Missing == NoTransfer

setWriteRam == writeCommand(92)

Min(a, b) == IF a < b THEN a ELSE b

Max(a, b) == IF a < b THEN b ELSE a

\* v & mask for an int v that may be negative (two's complement, 16 bits)
MaskCoord(v, mask) == BitAnd(v % (2^16), mask)

\* Written from the design document (Window Addressing, setWindow): swap
\* reversed corners, mask each coordinate, then column range, row range,
\* begin-write.
setWindow(x0, y0, x1, y1) ==
    setColumn(MaskCoord(Min(x0, x1), COLUMN_MASK), MaskCoord(Max(x0, x1), COLUMN_MASK))
        \o setRow(MaskCoord(Min(y0, y1), ROW_MASK), MaskCoord(Max(y0, y1), ROW_MASK))
        \o setWriteRam

---------------------------------------------------------------------------
(* Drawing engine, written from the design document (Drawing Engine).      *)

\* OLED::_setPixel: a 1x1 window, then the pixel
_setPixel(x, y, colour) == setWindow(x, y, x, y) \o writeDataColour(colour)

\* OLED::setPixel(const byte x, const byte y, const Colour colour)
setPixel(x, y, colour) ==
    IF x >= COLUMNS \/ y >= ROWS THEN NoTransfer ELSE _setPixel(x, y, colour)

\* OLED::fillScreen
fillScreen(colour) ==
    setWindow(0, 0, COLUMN_MASK, ROW_MASK)
        \o Repeat(writeDataColour(colour), COLUMNS * ROWS)

\* OLED::drawFilledBox(x1, y1, x2, y2, fillColour): a box wholly off the
\* canvas is ignored, any other is clipped to the canvas and filled as one
\* window.
drawFilledBox(x1, y1, x2, y2, fillColour) ==
    LET left   == Min(x1, x2)
        right  == Max(x1, x2)
        low    == Min(y1, y2)
        high   == Max(y1, y2)
        cl     == Max(left, 0)
        cr     == Min(right, COLUMN_MASK)
        cb     == Max(low, 0)
        ct     == Min(high, ROW_MASK)
    IN  IF right < 0 \/ left > COLUMN_MASK \/ high < 0 \/ low > ROW_MASK
        THEN NoTransfer
        ELSE setWindow(cl, cb, cr, ct)
                 \o Repeat(writeDataColour(fillColour), (cr - cl + 1) * (ct - cb + 1))

---------------------------------------------------------------------------
(* Bitmap decoder.  enum BMP_Status is the header's; the decoder is        *)
(* written from the design document (Bitmap Decoder).  A container is      *)
(* kept as the facts the decoder reads from it:                            *)
(*   signature   the signature and header length are valid                 *)
(*   header      the header variant is a supported one                     *)
(*   palette     number of palette entries (0: no palette)                 *)
(*   compressed  the compression flag names an unsupported mode            *)
(*   width, height, colour   the image; its pixels are one colour          *)

BMP_OK == 0

BMP_INVALID_FORMAT == 1

BMP_UNSUPPORTED_HEADER == 2

BMP_TOO_MANY_COLOURS == 3

BMP_COMPRESSION_NOT_SUPPORTED == 4

BMP_ORIGIN_OUTSIDE_IMAGE == 5

\* largest palette the decoder accepts
PaletteLimit == 2

\* the image placed with its bottom left corner at (x, y) misses the grid
WindowOutsideGrid(source, x, y) ==
    \/ x > COLUMN_MASK
    \/ y > ROW_MASK
    \/ x + source.width - 1 < 0
    \/ y + source.height - 1 < 0

\* the rows streamed into the part of the placement window on the grid
StreamRows(source, x, y) ==
    LET cl == Max(x, 0)
        cr == Min(x + source.width - 1, COLUMN_MASK)
        cb == Max(y, 0)
        ct == Min(y + source.height - 1, ROW_MASK)
    IN  setWindow(cl, cb, cr, ct)
            \o Repeat(writeDataColour(source.colour), (cr - cl + 1) * (ct - cb + 1))

\* faulty variant: the compression flag tested before the palette size
displayBMP_CompressionFirst(source, x, y) ==
    IF ~source.signature
    THEN [status |-> BMP_INVALID_FORMAT, out |-> NoTransfer]
    ELSE IF ~source.header
    THEN [status |-> BMP_UNSUPPORTED_HEADER, out |-> NoTransfer]
    ELSE IF source.compressed
    THEN [status |-> BMP_COMPRESSION_NOT_SUPPORTED, out |-> NoTransfer]
    ELSE IF source.palette > PaletteLimit
    THEN [status |-> BMP_TOO_MANY_COLOURS, out |-> NoTransfer]
    ELSE IF WindowOutsideGrid(source, x, y)
    THEN [status |-> BMP_ORIGIN_OUTSIDE_IMAGE, out |-> NoTransfer]
    ELSE [status |-> BMP_OK, out |-> StreamRows(source, x, y)]

\* OLED::displayBMP(source, x, y): the status returned and the transfers made
displayBMP(source, x, y) ==
    IF ~source.signature
    THEN [status |-> BMP_INVALID_FORMAT, out |-> NoTransfer]
    ELSE IF ~source.header
    THEN [status |-> BMP_UNSUPPORTED_HEADER, out |-> NoTransfer]
    ELSE IF source.palette > PaletteLimit
    THEN [status |-> BMP_TOO_MANY_COLOURS, out |-> NoTransfer]
    ELSE IF source.compressed
    THEN [status |-> BMP_COMPRESSION_NOT_SUPPORTED, out |-> NoTransfer]
    ELSE IF WindowOutsideGrid(source, x, y)
    THEN [status |-> BMP_ORIGIN_OUTSIDE_IMAGE, out |-> NoTransfer]
    ELSE [status |-> BMP_OK, out |-> StreamRows(source, x, y)]

---------------------------------------------------------------------------
(* Text box (class OLED_TextBox).  The header declares its fields and      *)
(* methods; their bodies are written from the design document (Text       *)
(* Surface).  The box is a small one so that wrapping and scrolling come   *)
(* early; the font is an outside resource, kept as two glyph widths and    *)
(* one height, and the transfers that rasterise a glyph are not kept.      *)

\* constructor defaults: int left = 0, int bottom = 0
TextLeft == 0

TextBottom == 0

\* the box's width and height in pixels
BoxWidth == 4

BoxHeight == 7

\* the selected font: glyph height, and the widths of its two glyphs
FontHeight == 2

NarrowGlyph == 1

WideGlyph == 2

Newline == "\n"

Printable == {"i", "W"}

\* OLED::charWidth
charWidth(letter) == IF letter = "i" THEN NarrowGlyph ELSE WideGlyph

\* OLED_TextBox::max_rows
max_rows == BoxHeight \div FontHeight

\* cap of the count of lines begun
LinesCap == max_rows + 1

EmptyBuffer == [r \in 1..max_rows |-> <<>>]

\* the text box as constructed
TextConstructed ==
    [cur_x |-> 0, cur_y |-> 0, buffer |-> EmptyBuffer,
     pending_newline |-> FALSE, lines |-> 1]

\* index in buffer of the line the cursor is on
CursorLine(t) == t.cur_y \div FontHeight + 1

\* first pixel row, counted from the bottom of the box, of its bottom line
BottomLineBase == TextBottom + (BoxHeight - max_rows * FontHeight)

\* faulty variant: the lines shifted up by two
scroll_TwoLines(t) ==
    [t   |-> [t EXCEPT !.buffer =
                 [r \in 1..max_rows |->
                     IF r + 2 <= max_rows THEN t.buffer[r + 2] ELSE <<>>]],
     out |-> drawFilledBox(TextLeft, BottomLineBase,
                           TextLeft + BoxWidth - 1, BottomLineBase + FontHeight - 1,
                           BLACK)]

\* OLED_TextBox::scroll: the lines move up by one, the bottom line is
\* cleared to the background
scroll(t) ==
    [t   |-> [t EXCEPT !.buffer =
                 [r \in 1..max_rows |->
                     IF r < max_rows THEN t.buffer[r + 1] ELSE <<>>]],
     out |-> drawFilledBox(TextLeft, BottomLineBase,
                           TextLeft + BoxWidth - 1, BottomLineBase + FontHeight - 1,
                           BLACK)]

\* write, the line advance: to the next line, or a scroll when the next
\* line would pass the bottom edge
NextLine(t) ==
    LET u == [t EXCEPT !.cur_x = 0,
                       !.lines = Min(t.lines + 1, LinesCap)]
    IN  IF t.cur_y + 2 * FontHeight > BoxHeight
        THEN scroll(u)
        ELSE [t |-> [u EXCEPT !.cur_y = t.cur_y + FontHeight], out |-> NoTransfer]

\* write, the glyph drawn at the cursor and the cursor advanced
DrawGlyph(t, letter) ==
    [t EXCEPT !.buffer[CursorLine(t)] = Append(t.buffer[CursorLine(t)], letter),
              !.cur_x = t.cur_x + charWidth(letter)]

\* OLED_TextBox::write(uint8_t)
write(t, character) ==
    LET a == IF t.pending_newline
             THEN NextLine([t EXCEPT !.pending_newline = FALSE])
             ELSE [t |-> t, out |-> NoTransfer]
    IN  IF character = Newline
        THEN [t |-> [a.t EXCEPT !.pending_newline = TRUE], out |-> a.out]
        ELSE LET b == IF a.t.cur_x + charWidth(character) > BoxWidth
                      THEN NextLine(a.t)
                      ELSE [t |-> a.t, out |-> NoTransfer]
             IN  [t |-> DrawGlyph(b.t, character), out |-> a.out \o b.out]

\* faulty variant: the deferred newline survives
reset_KeepsPending(t) ==
    [TextConstructed EXCEPT !.pending_newline = t.pending_newline]

\* OLED_TextBox::reset
reset(t) == TextConstructed

\* OLED_TextBox::clear_area
clear_area ==
    drawFilledBox(TextLeft, TextBottom,
                  TextLeft + BoxWidth - 1, TextBottom + BoxHeight - 1, BLACK)

\* OLED_TextBox::clear
clear(t) == [t |-> reset(t), out |-> clear_area]

---------------------------------------------------------------------------
(* State machine.                                                          *)

\* marks a byte-valued variable that holds no byte yet
Unset == 0 - 1

Bytes == 0..255

\* reset lengths and precharge lengths the panel accepts
ResetLengths == {r \in 5..31 : r % 2 = 1}

Precharges == 3..15

\* largest direction argument tried
MaxDirection == 3

\* how far past the canvas edges the coordinates tried reach
EdgeSpan == 1

\* int coordinates tried for the corners of a box
Corners == {0 - EdgeSpan, 0, COLUMN_MASK, COLUMN_MASK + EdgeSpan}

\* byte coordinates tried for a pixel
PixelCoords == {0, EdgeSpan, COLUMN_MASK, COLUMN_MASK + EdgeSpan, 255}

PaintColours == {BLACK, [red |-> 1, green |-> 36, blue |-> 2]}

\* largest image side tried
MaxImageSide == 2

Sources ==
    [signature : BOOLEAN, header : BOOLEAN, palette : 0..(PaletteLimit + 1),
     compressed : BOOLEAN, width : 1..MaxImageSide, height : 1..MaxImageSide,
     colour : {[red |-> 1, green |-> 36, blue |-> 2]}]

PlacementsX == {0 - MaxImageSide, 0, COLUMN_MASK, COLUMNS}

PlacementsY == {0 - MaxImageSide, 0, ROWS}

TextNow ==
    [cur_x |-> cur_x, cur_y |-> cur_y, buffer |-> buffer,
     pending_newline |-> pending_newline, lines |-> lines]

TextBecomes(t) ==
    /\ cur_x' = t.cur_x
    /\ cur_y' = t.cur_y
    /\ buffer' = t.buffer
    /\ pending_newline' = t.pending_newline
    /\ lines' = t.lines

textVars == <<cur_x, cur_y, buffer, pending_newline, lines>>

\* OLED(pin_ncs, pin_dc, pin_reset) leaves remap_flags uninitialised
InitOLED ==
    /\ wire = NoTransfer
    /\ ret = BMP_OK
    /\ remap_flags \in Bytes
    /\ dev_remap = Unset
    /\ fmt = Unset

InitTextBox ==
    /\ cur_x = TextConstructed.cur_x
    /\ cur_y = TextConstructed.cur_y
    /\ buffer = TextConstructed.buffer
    /\ pending_newline = TextConstructed.pending_newline
    /\ lines = TextConstructed.lines

Init ==
    /\ InitOLED
    /\ remap_flags = 0
    /\ InitTextBox
    /\ call = [op |-> "OLED"]

Sends(out) ==
    /\ wire' = out
    /\ dev_remap' = PanelRemap(dev_remap, out)

WriteDataColour ==
    /\ call.op = "Colour"
    /\ Sends(writeDataColour(call.colour))
    /\ call' = [op |-> "writeData", colour |-> call.colour]
    /\ UNCHANGED <<ret, remap_flags, fmt, textVars>>

SetRemapFormat(flags) ==
    /\ Sends(setRemapFormat(flags))
    /\ remap_flags' = flags
    /\ fmt' = flags
    /\ call' = [op |-> "setRemapFormat", flags |-> flags]
    /\ UNCHANGED <<ret, textVars>>

SetIncrementDirection(direction) ==
    /\ Sends(setIncrementDirection(remap_flags, direction))
    /\ remap_flags' = IncrementRemap(remap_flags, direction)
    /\ call' = [op |-> "setIncrementDirection", direction |-> direction]
    /\ UNCHANGED <<ret, fmt, textVars>>

SetResetPrechargePeriods(resetLength, precharge) ==
    /\ Sends(setResetPrechargePeriods(resetLength, precharge))
    /\ call' = [op |-> "setResetPrechargePeriods",
                resetLength |-> resetLength, precharge |-> precharge]
    /\ UNCHANGED <<ret, remap_flags, fmt, textVars>>

SetPixel(x, y, colour) ==
    /\ Sends(setPixel(x, y, colour))
    /\ call' = [op |-> "setPixel", x |-> x, y |-> y, colour |-> colour]
    /\ UNCHANGED <<ret, remap_flags, fmt, textVars>>

FillScreen(colour) ==
    /\ Sends(fillScreen(colour))
    /\ call' = [op |-> "fillScreen", colour |-> colour]
    /\ UNCHANGED <<ret, remap_flags, fmt, textVars>>

DrawFilledBox(x1, y1, x2, y2, colour) ==
    /\ Sends(drawFilledBox(x1, y1, x2, y2, colour))
    /\ call' = [op |-> "drawFilledBox", x1 |-> x1, y1 |-> y1, x2 |-> x2, y2 |-> y2,
                colour |-> colour]
    /\ UNCHANGED <<ret, remap_flags, fmt, textVars>>

DisplayBMP(source, x, y) ==
    /\ Sends(displayBMP(source, x, y).out)
    /\ ret' = displayBMP(source, x, y).status
    /\ call' = [op |-> "displayBMP", source |-> source, x |-> x, y |-> y]
    /\ UNCHANGED <<remap_flags, fmt, textVars>>

Write(character) ==
    /\ Sends(write(TextNow, character).out)
    /\ TextBecomes(write(TextNow, character).t)
    /\ call' = [op |-> "write", character |-> character]
    /\ UNCHANGED <<ret, remap_flags, fmt>>

Clear ==
    /\ Sends(clear(TextNow).out)
    /\ TextBecomes(clear(TextNow).t)
    /\ call' = [op |-> "clear", after_newline |-> pending_newline]
    /\ UNCHANGED <<ret, remap_flags, fmt>>

Reset ==
    /\ Sends(NoTransfer)
    /\ TextBecomes(reset(TextNow))
    /\ call' = [op |-> "reset"]
    /\ UNCHANGED <<ret, remap_flags, fmt>>

\* Pixel packing: every Colour, packed once.
InitColour ==
    /\ InitOLED
    /\ remap_flags = 0
    /\ InitTextBox
    /\ call \in [op : {"Colour"}, colour : Colour]

NextColour == WriteDataColour

SpecColour == InitColour /\ [][NextColour]_vars

\* Drawing calls.
NextDraw ==
    \/ \E x \in PixelCoords, y \in PixelCoords, c \in PaintColours : SetPixel(x, y, c)
    \/ \E c \in PaintColours : FillScreen(c)
    \/ \E x1 \in Corners, y1 \in Corners, x2 \in Corners, y2 \in Corners,
          c \in PaintColours : DrawFilledBox(x1, y1, x2, y2, c)

SpecDraw == Init /\ [][NextDraw]_vars

\* Bitmap display.
NextBMP == \E s \in Sources, x \in PlacementsX, y \in PlacementsY : DisplayBMP(s, x, y)

SpecBMP == Init /\ [][NextBMP]_vars

\* Remap register.
InitRemap ==
    /\ InitOLED
    /\ InitTextBox
    /\ call = [op |-> "OLED"]

NextRemap ==
    \/ \E f \in Bytes : SetRemapFormat(f)
    \/ \E d \in 0..MaxDirection : SetIncrementDirection(d)

SpecRemap == InitRemap /\ [][NextRemap]_vars

\* Reset and precharge periods.
NextTiming ==
    \E r \in ResetLengths, p \in Precharges : SetResetPrechargePeriods(r, p)

SpecTiming == Init /\ [][NextTiming]_vars

\* Text box.
NextText ==
    \/ \E c \in Printable \cup {Newline} : Write(c)
    \/ Clear
    \/ Reset

SpecText == Init /\ [][NextText]_vars

\* Every call.
Next ==
    \/ NextDraw
    \/ NextBMP
    \/ NextRemap
    \/ NextTiming
    \/ NextText

Spec == Init /\ [][Next]_vars

---------------------------------------------------------------------------
(* Properties.                                                             *)

Cmd(b) == [k |-> "cmd", b |-> b]

Data(b) == [k |-> "data", b |-> b]

\* the 16-bit value of a pixel
Pixel565(colour) == colour.red * 2048 + colour.green * 32 + colour.blue

\* C1: writeData(Colour) sends exactly two data bytes, the high byte and
\* then the low byte of red*2048 + green*32 + blue.
Thm_C1 ==
    call.op = "writeData" =>
        wire = <<Data(Pixel565(call.colour) \div 256), Data(Pixel565(call.colour) % 256)>>

Wit_C1 ==
    /\ call.op = "writeData"
    /\ call.colour = [red |-> 31, green |-> 39, blue |-> 17]
    /\ wire = <<Data(252), Data(241)>>

\* the colour read back from the two bytes of a pixel
Unpack(byte1, byte2) ==
    [red   |-> Shr(byte1, 3),
     green |-> BitOr(Shl(BitAnd(byte1, 7), 3), Shr(byte2, 5)),
     blue  |-> BitAnd(byte2, 31)]

\* C2: unpacking the two bytes writeData(Colour) sends gives back the
\* Colour, for every red in 0..31, green in 0..63, blue in 0..31.
Thm_C2 ==
    call.op = "writeData" =>
        /\ Len(wire) = 2
        /\ Unpack(wire[1].b, wire[2].b) = call.colour

Wit_C2 ==
    /\ call.op = "writeData"
    /\ call.colour = [red |-> 0, green |-> 63, blue |-> 0]
    /\ Unpack(wire[1].b, wire[2].b).green = 63

RECURSIVE LastCommandBefore(_, _)
LastCommandBefore(w, i) ==
    IF i <= 1 THEN 0
    ELSE IF w[i - 1].k = "cmd" THEN i - 1
    ELSE LastCommandBefore(w, i - 1)

\* the six transfers before position p of w are a column range and a row range
WindowBefore(w, p) ==
    /\ p >= 7
    /\ w[p - 6] = Cmd(21)
    /\ w[p - 5].k = "data"
    /\ w[p - 4].k = "data"
    /\ w[p - 3] = Cmd(117)
    /\ w[p - 2].k = "data"
    /\ w[p - 1].k = "data"

\* C4: every transfer that is not a command is one of the two range bytes
\* of a 0x15 or 0x75 command, or pixel data behind a 0x5C command that
\* itself comes right after 0x15 start end 0x75 start end.
Thm_C4 ==
    \A i \in 1..Len(wire) :
        wire[i].k # "cmd" =>
            LET p == LastCommandBefore(wire, i)
            IN  /\ p > 0
                /\ \/ /\ wire[p].b \in {21, 117}
                      /\ wire[i].k = "data"
                      /\ i - p <= 2
                   \/ /\ wire[p].b = 92
                      /\ WindowBefore(wire, p)

Wit_C4 ==
    /\ call.op = "fillScreen"
    /\ Len(wire) = 8
    /\ wire[7] = Cmd(92)
    /\ wire[8].k = "repeat"
    /\ wire[8].n = ROWS * COLUMNS

\* C5: setPixel with x > 127 or y > 127 sends nothing; with both in 0..127
\* it sends the window x..x, y..y, the begin-write command and the two
\* bytes of the colour.
Thm_C5 ==
    call.op = "setPixel" =>
        IF call.x > 127 \/ call.y > 127
        THEN wire = NoTransfer
        ELSE wire = <<Cmd(21), Data(call.x), Data(call.x),
                      Cmd(117), Data(call.y), Data(call.y),
                      Cmd(92),
                      Data(Pixel565(call.colour) \div 256),
                      Data(Pixel565(call.colour) % 256)>>

Wit_C5 ==
    /\ call.op = "setPixel"
    /\ call.x = 128
    /\ call.y = 127
    /\ wire = NoTransfer

\* number of transfers of w that are not commands
RECURSIVE DataCount(_)
DataCount(w) ==
    IF w = <<>> THEN 0
    ELSE (IF Head(w).k = "cmd" THEN 0 ELSE 1) + DataCount(Tail(w))

\* C6: displayBMP returns one BMP_Status; it is that of the first check
\* the container fails, in the order signature, header, palette,
\* compression, placement; then nothing has been written; BMP_OK is
\* returned only when no check fails.
Thm_C6 ==
    call.op = "displayBMP" =>
        LET s  == call.source
            f1 == ~s.signature
            f2 == ~s.header
            f3 == s.palette > PaletteLimit
            f4 == s.compressed
            f5 == WindowOutsideGrid(s, call.x, call.y)
        IN  /\ ret \in {BMP_OK, BMP_INVALID_FORMAT, BMP_UNSUPPORTED_HEADER,
                        BMP_TOO_MANY_COLOURS, BMP_COMPRESSION_NOT_SUPPORTED,
                        BMP_ORIGIN_OUTSIDE_IMAGE}
            /\ f1 => ret = BMP_INVALID_FORMAT
            /\ (~f1 /\ f2) => ret = BMP_UNSUPPORTED_HEADER
            /\ (~f1 /\ ~f2 /\ f3) => ret = BMP_TOO_MANY_COLOURS
            /\ (~f1 /\ ~f2 /\ ~f3 /\ f4) => ret = BMP_COMPRESSION_NOT_SUPPORTED
            /\ (~f1 /\ ~f2 /\ ~f3 /\ ~f4 /\ f5) => ret = BMP_ORIGIN_OUTSIDE_IMAGE
            /\ (f1 \/ f2 \/ f3 \/ f4 \/ f5) => DataCount(wire) = 0
            /\ ret = BMP_OK => ~(f1 \/ f2 \/ f3 \/ f4 \/ f5)

Wit_C6 ==
    /\ call.op = "displayBMP"
    /\ call.source.signature
    /\ call.source.header
    /\ call.source.palette > PaletteLimit
    /\ call.source.compressed
    /\ call.x > COLUMN_MASK
    /\ ret = BMP_TOO_MANY_COLOURS
    /\ wire = NoTransfer

\* the fields of the text box
TextFields == <<cur_x, cur_y, buffer, pending_newline>>

\* C7: clear() leaves the text box as clear() leaves a box just
\* constructed, with no newline pending, whatever was written before; the
\* next printable character (one that fits the box) goes on the top line,
\* with no scroll.
Step_C7 ==
    /\ call'.op = "clear" =>
        /\ TextFields' = <<clear(TextConstructed).t.cur_x, clear(TextConstructed).t.cur_y,
                           clear(TextConstructed).t.buffer,
                           clear(TextConstructed).t.pending_newline>>
        /\ pending_newline' = FALSE
        /\ cur_x' = 0
        /\ cur_y' = 0
    /\ (/\ call.op = "clear"
        /\ call'.op = "write"
        /\ call'.character \in Printable
        /\ charWidth(call'.character) <= BoxWidth) =>
        /\ cur_y' = 0
        /\ buffer' = [EmptyBuffer EXCEPT ![1] = <<call'.character>>]
        /\ wire' = NoTransfer

Thm_C7 == [][Step_C7]_vars

Wit_C7 ==
    /\ call.op = "clear"
    /\ call.after_newline
    /\ pending_newline = FALSE
    /\ buffer = EmptyBuffer

\* pixel offset of the bottom line from the top of the box
BottomLineY == (max_rows - 1) * FontHeight

\* C8: for glyphs that fit the box:
\* the cursor row stays on a line of the box; a write that must begin
\* a line while the cursor is on the bottom line moves every line up by
\* one, clears only the bottom line and draws there; once more lines than
\* max_rows have been begun, the character just written is the last one
\* of the bottom line.
Step_C8 ==
    (/\ call'.op = "write"
     /\ call'.character \in Printable
     /\ charWidth(call'.character) <= BoxWidth) =>
        LET c      == call'.character
            breaks == pending_newline \/ cur_x + charWidth(c) > BoxWidth
        IN  /\ cur_y' \in {r * FontHeight : r \in 0..(max_rows - 1)}
            /\ (breaks /\ cur_y = BottomLineY) =>
                /\ cur_y' = BottomLineY
                /\ buffer' = [r \in 1..max_rows |->
                                 IF r < max_rows THEN buffer[r + 1] ELSE <<c>>]
                /\ wire' = setWindow(TextLeft, BottomLineBase,
                                     TextLeft + BoxWidth - 1,
                                     BottomLineBase + FontHeight - 1)
                             \o Repeat(writeDataColour(BLACK), BoxWidth * FontHeight)
            /\ lines' > max_rows =>
                /\ cur_y' = BottomLineY
                /\ buffer'[max_rows] # <<>>
                /\ buffer'[max_rows][Len(buffer'[max_rows])] = c

Claim_C9 ==
    call.op = "setResetPrechargePeriods" =>
        /\ Len(wire) = 2
        /\ wire[1] = Cmd(177)
        /\ wire[2].k = "data"
        /\ wire[2].b % 16 = call.precharge % 16
        /\ wire[2].b \div 16 \in 3..15
        /\ \A r \in ResetLengths \ {call.resetLength} :
               ResetPrechargeData(r, call.precharge) # wire[2].b

\* C10: once setRemapFormat(f) has been called, remap_flags is the data
\* byte of the last 0xA0 command sent, its bits 1..7 are those of f, and
\* after setIncrementDirection(d) its bit 0 is d & 1.
Thm_C10 ==
    fmt # Unset =>
        /\ remap_flags = dev_remap
        /\ remap_flags \div 2 = fmt \div 2
        /\ call.op = "setIncrementDirection" => remap_flags % 2 = call.direction % 2
        /\ call.op = "setRemapFormat" => remap_flags = call.flags

Wit_C10 ==
    /\ fmt = 116
    /\ call.op = "setIncrementDirection"
    /\ call.direction = 3
    /\ remap_flags = 117
    /\ dev_remap = 117

=============================================================================
